---- MODULE Spec2Model ----
(***************************************************************************)
(* Model of parquet/src/compression.rs: the Codec trait (value marshaller, *)
(* allowed), the backend adapters, the Hadoop-framed LZ4 codec with its    *)
(* fallback chain, and create_codec.                                       *)
(*                                                                         *)
(* Typed values are integers: unsigned and signed tags hold the number,    *)
(* float tags hold the IEEE-754 bit pattern (to_bits).  TLC integers are   *)
(* 32 bits wide, so the values drawn for 32/64-bit tags stay below 2^31;   *)
(* the big-endian conversion is computed byte by byte as byteorder does.   *)
(***************************************************************************)
EXTENDS Integers, Sequences, FiniteSets, TLC

VARIABLES
  tag,           \* the primitive type tag of the column being processed
  codec,         \* the codec instance the caller holds (create_codec)
  compressed,    \* the caller's Vec<u8>: compress output, decompress input
  decompressed,  \* the caller's Vec<Box<dyn DataTypeConstraint>>
  pc,            \* "idle", "aborted" (a panic), or a position inside
                 \* LZ4HadoopCodec::decompress
  last,          \* the call in progress or just returned: arguments,
                 \* buffers before the call, result
  ncomp,         \* compress calls made
  ndec,          \* decompress calls made
  written,       \* per compress call: offset in compressed, marshalled size,
                 \* algorithm and input
  plen,          \* length of the caller's prefix in compressed
  hd             \* locals of LZ4HadoopCodec::decompress and
                 \* try_decompress_hadoop

vars ==
  <<tag, codec, compressed, decompressed, pc, last, ncomp, ndec, written,
    plen, hd>>

(***************************************************************************)
(* Bounds of the exploration.                                              *)
(***************************************************************************)
MaxLen == 2

MaxCompress == 2

MaxDecompress == 1

(***************************************************************************)
(* Primitive type tags (DataTypeConstraint::typename) and element widths.  *)
(***************************************************************************)
Tags == {"u8", "u16", "u32", "u64", "i8", "i16", "i32", "i64", "f32", "f64"}

Width(t) ==
  CASE t \in {"u8", "i8"} -> 1
    [] t \in {"u16", "i16"} -> 2
    [] t \in {"u32", "i32", "f32"} -> 4
    [] t \in {"u64", "i64", "f64"} -> 8

Signed(t) == t \in {"i8", "i16", "i32", "i64"}

\* Two distinct values per tag, with bytes that differ from one another.
ValA(t) ==
  CASE t = "u8" -> 7
    [] t = "u16" -> 258
    [] t = "u32" -> 16909060
    [] t = "u64" -> 16909060
    [] t = "i8" -> -2
    [] t = "i16" -> -259
    [] t = "i32" -> -16909061
    [] t = "i64" -> -2
    [] t = "f32" -> 1065353216
    [] t = "f64" -> 16909060

ValB(t) ==
  CASE t = "u8" -> 200
    [] t = "u16" -> 40000
    [] t = "u32" -> 9
    [] t = "u64" -> 2130706433
    [] t = "i8" -> 5
    [] t = "i16" -> 258
    [] t = "i32" -> 258
    [] t = "i64" -> 16909060
    [] t = "f32" -> 1078530011
    [] t = "f64" -> 1

Values(t) == {ValA(t), ValB(t)}

SeqsUpTo(S, n) == UNION {[1..k -> S] : k \in 0..n}

Inputs(t) == SeqsUpTo(Values(t), MaxLen)

\* Inputs that keep the elements compressed in one session within MaxLen.
InputsWithin(t, room) == {x \in Inputs(t) : Len(x) <= room}

\* The column a session compresses from: values that alternate, so that a
\* reordering or a repetition shows.
Sample(t) == [i \in 1..MaxLen |-> IF i % 2 = 1 THEN ValA(t) ELSE ValB(t)]

\* The next chunks of the column, within MaxLen elements in all.
Chunks(t, done) == {SubSeq(Sample(t), done + 1, done + n) : n \in 0..(MaxLen - done)}

(***************************************************************************)
(* Sequence helpers.                                                       *)
(***************************************************************************)
Take(s, n) == SubSeq(s, 1, n)

Drop(s, n) == SubSeq(s, n + 1, Len(s))

Zeros(n) == [i \in 1..n |-> 0]

\* Vec::resize(n, 0): truncate or pad with zeros.
Resize(s, n) == IF n <= Len(s) THEN Take(s, n) ELSE s \o Zeros(n - Len(s))

\* dst[at+1 ..] <- src, for a slice write that stays inside dst.
Overwrite(dst, at, src) ==
  [i \in 1..Len(dst) |->
     IF i > at /\ i <= at + Len(src) THEN src[i - at] ELSE dst[i]]

RECURSIVE Flatten(_)
Flatten(ss) == IF ss = <<>> THEN <<>> ELSE Head(ss) \o Flatten(Tail(ss))

(***************************************************************************)
(* Results: Ok(val), Err(msg), or a panic that unwinds the caller.         *)
(***************************************************************************)
Ok(n) == [kind |-> "ok", val |-> n, msg |-> ""]

Err(m) == [kind |-> "err", val |-> 0, msg |-> m]

Panic(m) == [kind |-> "panic", val |-> 0, msg |-> m]

NoRet == [kind |-> "none", val |-> 0, msg |-> ""]

\* Option<usize> as a sequence: None is empty, Some(n) holds n.
NoneSize == <<>>

SomeSize(n) == <<n>>

IsSome(o) == o # <<>>

Unwrap(o) == o[1]

(***************************************************************************)
(* byteorder::BigEndian on one value.                                      *)
(***************************************************************************)
Pow256(k) == CASE k = 0 -> 1 [] k = 1 -> 256 [] k = 2 -> 65536 [] k = 3 -> 16777216

\* Byte k (0 = least significant) of a non-negative value below 2^31.
ByteOf(v, k) == IF k >= 4 THEN 0 ELSE (v \div Pow256(k)) % 256

\* to_be_bytes of the two's complement representation, width w.
ToBE(v, w) ==
  [i \in 1..w |->
     IF v >= 0 THEN ByteOf(v, w - i) ELSE 255 - ByteOf(-v - 1, w - i)]

RECURSIVE SumBE(_, _)
SumBE(bs, w) ==
  IF bs = <<>> THEN 0
  ELSE Head(bs) * (IF Head(bs) = 0 THEN 0 ELSE Pow256(w - 1)) + SumBE(Tail(bs), w - 1)

\* The magnitude of the big-endian number bs, saturated at 2^31 - 1: the
\* values compressed here are smaller, so a saturated result only arises
\* from bytes that are not the encoding of such a value.
Saturated(bs) ==
  \/ \E i \in 1..Len(bs) : Len(bs) - i >= 4 /\ bs[i] # 0
  \/ Len(bs) >= 4 /\ bs[Len(bs) - 3] >= 128

Magnitude(bs) == IF Saturated(bs) THEN 2147483647 ELSE SumBE(bs, Len(bs))

\* from_be_bytes: the number for integer tags, the bit pattern for floats.
FromBE(bs, t) ==
  IF Signed(t) /\ bs[1] >= 128
  THEN LET m == Magnitude([i \in 1..Len(bs) |-> 255 - bs[i]])
       IN IF m = 2147483647 THEN -m ELSE -(1 + m)
  ELSE Magnitude(bs)

(***************************************************************************)
(* Value marshaller: Codec::convert_to_u8 and Codec::convert_from_u8.      *)
(* Both return the record [ret, out]: the result and the output buffer.    *)
(***************************************************************************)
MultiByteTags == {"u16", "u32", "u64", "i16", "i32", "i64", "f32", "f64"}

\* BigEndian::write_*_into over the whole slice.
WriteInto(vals, w) == Flatten([i \in 1..Len(vals) |-> ToBE(vals[i], w)])

\* BigEndian::read_*_into over the whole slice (Len(bytes) = w * n).
ReadInto(bytes, t) ==
  [i \in 1..(Len(bytes) \div Width(t)) |->
     FromBE(SubSeq(bytes, (i - 1) * Width(t) + 1, i * Width(t)), t)]

convert_to_u8(t, input_buf, output_buf) ==
  IF t = "u8" THEN
    LET out == output_buf \o input_buf
    IN [ret |-> Ok(Len(out)), out |-> out]
  ELSE IF t \in MultiByteTags THEN
    LET u8_size == Len(input_buf) * Width(t)
        resized == Resize(output_buf, u8_size)
        out == Overwrite(resized, 0, WriteInto(input_buf, Width(t)))
    IN [ret |-> Ok(Len(out)), out |-> out]
  ELSE [ret |-> Panic("Unsupported data type"), out |-> output_buf]

convert_from_u8(input_buf, t, output_buf) ==
  IF t = "u8" THEN
    LET out == output_buf \o input_buf
    IN [ret |-> Ok(Len(out)), out |-> out]
  ELSE IF t \in MultiByteTags THEN
    IF Len(input_buf) # Width(t) * (Len(input_buf) \div Width(t))
    THEN [ret |-> Panic("read_into length assertion"), out |-> output_buf]
    ELSE LET out == output_buf \o ReadInto(input_buf, t)
         IN [ret |-> Ok(Len(out)), out |-> out]
  ELSE [ret |-> Panic("Unsupported data type"), out |-> output_buf]

(***************************************************************************)
(* Backends.  Each is an external crate called from compression.rs; what   *)
(* is modelled is the byte format for the short inputs explored here and   *)
(* the error conditions of the decoder entry points the adapters call.     *)
(* A decoder returns [ok, out]: out holds the bytes produced, which on a   *)
(* failure are the bytes written before the failure was detected.          *)
(***************************************************************************)

\* --- lz4::block (LZ4 block format) ---------------------------------------
\* lz4::block::compress_to_buffer(src, None, false, dst) on a short input:
\* one sequence of literals.
Lz4BlockEncode(bytes) ==
  IF Len(bytes) < 15 THEN <<Len(bytes) * 16>> \o bytes
  ELSE <<240, Len(bytes) - 15>> \o bytes

RECURSIVE Lz4ReadLen(_, _, _)
Lz4ReadLen(src, ip, acc) ==
  IF ip > Len(src) THEN [ok |-> FALSE, len |-> acc, ip |-> ip]
  ELSE IF src[ip] = 255 THEN Lz4ReadLen(src, ip + 1, acc + 255)
  ELSE [ok |-> TRUE, len |-> acc + src[ip], ip |-> ip + 1]

Lz4Len(src, ip, nibble) ==
  IF nibble = 15 THEN Lz4ReadLen(src, ip, 15)
  ELSE [ok |-> TRUE, len |-> nibble, ip |-> ip]

RECURSIVE Lz4CopyMatch(_, _, _)
Lz4CopyMatch(out, off, n) ==
  IF n = 0 THEN out
  ELSE Lz4CopyMatch(Append(out, out[Len(out) - off + 1]), off, n - 1)

\* LZ4_decompress_safe, sequence by sequence; ip is the 1-based read
\* position, cap the capacity of the destination.
RECURSIVE Lz4Sequences(_, _, _, _)
Lz4Sequences(src, ip, out, cap) ==
  IF ip > Len(src) THEN [ok |-> FALSE, out |-> out]
  ELSE
    LET token == src[ip]
        lit == Lz4Len(src, ip + 1, token \div 16)
        used == lit.ip + lit.len - 1
    IN IF ~lit.ok THEN [ok |-> FALSE, out |-> out]
       ELSE IF Len(out) + lit.len > cap - 12 \/ used > Len(src) - 8 THEN
         \* last sequence: literals must end the input and fit
         IF used # Len(src) \/ Len(out) + lit.len > cap
         THEN [ok |-> FALSE, out |-> out]
         ELSE [ok |-> TRUE, out |-> out \o SubSeq(src, lit.ip, used)]
       ELSE
         LET out1 == out \o SubSeq(src, lit.ip, used)
             off == src[used + 1] + 256 * src[used + 2]
             ml == Lz4Len(src, used + 3, token % 16)
         IN IF off = 0 \/ off > Len(out1) \/ ~ml.ok
               \/ Len(out1) + ml.len + 4 > cap - 5
            THEN [ok |-> FALSE, out |-> out1]
            ELSE Lz4Sequences(src, ml.ip, Lz4CopyMatch(out1, off, ml.len + 4), cap)

\* lz4::block::decompress_to_buffer(src, Some(size), buffer): size is the
\* capacity handed to LZ4_decompress_safe; buflen is buffer.len().
Lz4BlockDecode(src, size, buflen) ==
  IF size > buflen THEN [ok |-> FALSE, out |-> <<>>]
  ELSE IF size = 0 THEN [ok |-> src = <<0>>, out |-> <<>>]
  ELSE IF src = <<>> THEN [ok |-> FALSE, out |-> <<>>]
  ELSE Lz4Sequences(src, 1, <<>>, size)

\* --- snap::raw (Snappy raw format) ---------------------------------------
\* Encoder::compress on a short input: length header, one literal.
SnappyEncode(bytes) ==
  IF bytes = <<>> THEN <<0>>
  ELSE <<Len(bytes), (Len(bytes) - 1) * 4>> \o bytes

\* snap::raw::decompress_len: the varint header (one byte below 128).
SnappyDecompressLen(src) ==
  IF src = <<>> THEN Ok(0)
  ELSE IF src[1] < 128 THEN Ok(src[1])
  ELSE Err("snappy: unsupported header")

RECURSIVE SnappyElements(_, _, _, _)
SnappyElements(src, ip, out, len) ==
  IF ip > Len(src) THEN [ok |-> Len(out) = len, out |-> out]
  ELSE
    LET t == src[ip]
        kind == t % 4
    IN IF kind = 0 THEN
         LET n == (t \div 4) + 1
         IN IF n > 60 \/ ip + n > Len(src) \/ Len(out) + n > len
            THEN [ok |-> FALSE, out |-> out]
            ELSE SnappyElements(src, ip + 1 + n,
                                out \o SubSeq(src, ip + 1, ip + n), len)
       ELSE IF kind = 1 THEN
         LET n == 4 + ((t \div 4) % 8)
             off == IF ip + 1 > Len(src) THEN 0
                    ELSE (t \div 32) * 256 + src[ip + 1]
         IN IF off = 0 \/ off > Len(out) \/ Len(out) + n > len
            THEN [ok |-> FALSE, out |-> out]
            ELSE SnappyElements(src, ip + 2, Lz4CopyMatch(out, off, n), len)
       ELSE
         LET n == (t \div 4) + 1
             nb == IF kind = 2 THEN 2 ELSE 4
             off == IF ip + nb > Len(src) THEN 0
                    ELSE IF nb = 4 /\ (src[ip + 3] # 0 \/ src[ip + 4] # 0) THEN 0
                    ELSE src[ip + 1] + 256 * src[ip + 2]
         IN IF off = 0 \/ off > Len(out) \/ Len(out) + n > len
            THEN [ok |-> FALSE, out |-> out]
            ELSE SnappyElements(src, ip + 1 + nb, Lz4CopyMatch(out, off, n), len)

\* Decoder::decompress(input, output): buflen is output.len().  An empty
\* input is an error (Error::Empty), though decompress_len accepts it.
SnappyDecode(src, buflen) ==
  IF src = <<>> THEN [ok |-> FALSE, out |-> <<>>]
  ELSE IF src[1] >= 128 \/ buflen < src[1] THEN [ok |-> FALSE, out |-> <<>>]
  ELSE SnappyElements(src, 2, <<>>, src[1])

\* --- stream backends: flate2 (gzip), brotli, zstd, lz4 frame, q_compress --
\* A stream is its magic number, the payload length and the payload; a
\* decoder rejects a wrong magic, a wrong length and trailing bytes, and
\* delivers nothing before the stream has been validated.
Magic(alg) ==
  CASE alg = "GZIP" -> <<31, 139>>
    [] alg = "BROTLI" -> <<>>
    [] alg = "ZSTD" -> <<40, 181, 47, 253>>
    [] alg = "LZ4_FRAME" -> <<4, 34, 77, 24>>
    [] alg = "QCOM" -> <<113, 99, 111, 33>>

StreamEncode(magic, bytes) == magic \o <<Len(bytes)>> \o bytes

StreamDecode(magic, src) ==
  LET m == Len(magic)
  IN IF Len(src) < m + 1 \/ Take(src, m) # magic
        \/ Len(src) # m + 1 + src[m + 1]
     THEN [ok |-> FALSE, out |-> <<>>]
     ELSE [ok |-> TRUE, out |-> Drop(src, m + 1)]

\* q_compress::auto_compress::<T> / auto_decompress::<T>: the stream
\* carries the data type of T and the values.
QcomDtype(t) ==
  CASE t = "u16" -> 2 [] t = "u32" -> 3 [] t = "u64" -> 4
    [] t = "i16" -> 6 [] t = "i32" -> 7 [] t = "i64" -> 8
    [] t = "f32" -> 9 [] t = "f64" -> 10

QcomEncode(t, vals) ==
  StreamEncode(Magic("QCOM") \o <<QcomDtype(t)>>, WriteInto(vals, Width(t)))

QcomDecode(t, src) ==
  LET r == StreamDecode(Magic("QCOM") \o <<QcomDtype(t)>>, src)
  IN IF r.ok /\ Len(r.out) % Width(t) = 0
     THEN [ok |-> TRUE, out |-> ReadInto(r.out, t)]
     ELSE [ok |-> FALSE, out |-> <<>>]

(***************************************************************************)
(* Codec options and the factory.                                          *)
(***************************************************************************)
Selectors ==
  {"UNCOMPRESSED", "SNAPPY", "GZIP", "LZO", "BROTLI", "LZ4", "ZSTD",
   "LZ4_RAW", "LZ4_FRAME", "QCOM"}

Algorithms ==
  {"SNAPPY", "GZIP", "BROTLI", "LZ4", "ZSTD", "LZ4_RAW", "LZ4_FRAME", "QCOM"}

\* No instance held; id numbers the instances in the order they are created.
NoCodec == [alg |-> "none", backward_compatible_lz4 |-> FALSE, id |-> 0]

\* The n-th instance the caller obtained: the fields of its struct (only
\* LZ4HadoopCodec has one that calls read) and which object it is.
Instance(c, n) ==
  [alg |-> c.alg, backward_compatible_lz4 |-> c.backward_compatible_lz4,
   id |-> n]

\* A variant of CodecOptionsBuilder::default() that starts disabled.
CodecOptionsBuilderDisabled == [backward_compatible_lz4 |-> FALSE]

\* CodecOptionsBuilder::default()
CodecOptionsBuilderDefault == [backward_compatible_lz4 |-> TRUE]

\* CodecOptionsBuilder::set_backward_compatible_lz4(self, value)
set_backward_compatible_lz4(self, value) ==
  [self EXCEPT !.backward_compatible_lz4 = value]

\* CodecOptionsBuilder::build(self)
build(self) == [backward_compatible_lz4 |-> self.backward_compatible_lz4]

\* CodecOptions::default()
CodecOptionsDefault == build(CodecOptionsBuilderDefault)

\* The chains of set_backward_compatible_lz4 calls a caller makes on a builder.
SetterCalls ==
  {<<>>} \cup {<<a>> : a \in BOOLEAN} \cup {<<a, b>> : a, b \in BOOLEAN}

\* CodecOptionsBuilder::default().set_...(sets[1]). ... .build()
RECURSIVE Configure(_, _)
Configure(self, sets) ==
  IF sets = <<>> THEN self
  ELSE Configure(set_backward_compatible_lz4(self, Head(sets)), Tail(sets))

BuildOptions(sets) == build(Configure(CodecOptionsBuilderDefault, sets))

\* CodecOptionsBuilder::default().set_backward_compatible_lz4(v).build()
CodecOptions(v) == BuildOptions(<<v>>)

\* A variant that builds LZ4HadoopCodec with the default of the option.
create_codecIgnoringOptions(sel, options) ==
  IF sel = "LZ4" THEN
    [ret |-> Ok(1),
     codec |-> [alg |-> "LZ4", backward_compatible_lz4 |-> TRUE]]
  ELSE IF sel \in Algorithms THEN
    [ret |-> Ok(1), codec |-> [alg |-> sel, backward_compatible_lz4 |-> FALSE]]
  ELSE IF sel = "UNCOMPRESSED" THEN [ret |-> Ok(0), codec |-> NoCodec]
  ELSE [ret |-> Err("The codec type is not supported yet"), codec |-> NoCodec]

\* create_codec(codec, options): Ok(Some(instance)), Ok(None) or Err.
create_codec(sel, options) ==
  IF sel = "LZ4" THEN
    [ret |-> Ok(1),
     codec |-> [alg |-> "LZ4",
                backward_compatible_lz4 |-> options.backward_compatible_lz4]]
  ELSE IF sel \in Algorithms THEN
    [ret |-> Ok(1), codec |-> [alg |-> sel, backward_compatible_lz4 |-> FALSE]]
  ELSE IF sel = "UNCOMPRESSED" THEN [ret |-> Ok(0), codec |-> NoCodec]
  ELSE [ret |-> Err("The codec type is not supported yet"), codec |-> NoCodec]

(***************************************************************************)
(* Codec::allowed (default) and QcomCodec::allowed, on the tag of the      *)
(* first element; n is the length of the sequence.                         *)
(***************************************************************************)
\* A variant in which QcomCodec does not override allowed.
allowedByDefault(alg, t, n) ==
  IF n = 0 THEN TRUE ELSE t \in Tags

allowed(alg, t, n) ==
  IF n = 0 THEN TRUE
  ELSE IF alg = "QCOM" THEN t \in MultiByteTags
  ELSE t \in Tags

(***************************************************************************)
(* compress of every codec: [ret, out], out being output_buf afterwards.   *)
(***************************************************************************)
\* The backend encoder each byte-oriented adapter writes through.
BackendEncode(alg, bytes) ==
  CASE alg = "SNAPPY" -> SnappyEncode(bytes)
    [] alg = "LZ4_RAW" -> Lz4BlockEncode(bytes)
    [] alg \in {"GZIP", "BROTLI", "ZSTD", "LZ4_FRAME"} ->
         StreamEncode(Magic(alg), bytes)

\* SnappyCodec, GZipCodec, BrotliCodec, LZ4Codec, ZSTDCodec, LZ4RawCodec:
\* marshal, then append the backend's output to output_buf.
ByteCodecCompress(alg, t, input_buf, output_buf) ==
  LET conv == convert_to_u8(t, input_buf, <<>>)
  IN IF conv.ret.kind = "panic" THEN [ret |-> conv.ret, out |-> output_buf]
     ELSE [ret |-> Ok(0), out |-> output_buf \o BackendEncode(alg, conv.out)]

\* u32::to_be_bytes
U32BE(n) == ToBE(n, 4)

\* A variant that writes the two header fields in the other order.
LZ4HadoopCompressSwapped(t, input_buf, output_buf) ==
  LET conv == convert_to_u8(t, input_buf, <<>>)
      offset == Len(output_buf)
      reserved == output_buf \o Zeros(8)
      raw == ByteCodecCompress("LZ4_RAW", t, input_buf, reserved)
      compressed_size == Len(raw.out) - offset - 8
      uncompressed_size == Len(conv.out)
  IN IF conv.ret.kind = "panic" THEN [ret |-> conv.ret, out |-> output_buf]
     ELSE IF raw.ret.kind # "ok" THEN [ret |-> raw.ret, out |-> raw.out]
     ELSE [ret |-> Ok(0),
           out |-> Overwrite(Overwrite(raw.out, offset, U32BE(compressed_size)),
                             offset + 4, U32BE(uncompressed_size))]

\* A variant that writes the frame header at the start of output_buf
\* instead of at the offset the call began with.
LZ4HadoopCompressAtStart(t, input_buf, output_buf) ==
  LET conv == convert_to_u8(t, input_buf, <<>>)
      offset == Len(output_buf)
      reserved == output_buf \o Zeros(8)
      raw == ByteCodecCompress("LZ4_RAW", t, input_buf, reserved)
      compressed_size == Len(raw.out) - offset - 8
      uncompressed_size == Len(conv.out)
  IN IF conv.ret.kind = "panic" THEN [ret |-> conv.ret, out |-> output_buf]
     ELSE IF raw.ret.kind # "ok" THEN [ret |-> raw.ret, out |-> raw.out]
     ELSE [ret |-> Ok(0),
           out |-> Overwrite(Overwrite(raw.out, 0, U32BE(uncompressed_size)),
                             4, U32BE(compressed_size))]

\* LZ4HadoopCodec::compress
LZ4HadoopCompress(t, input_buf, output_buf) ==
  LET conv == convert_to_u8(t, input_buf, <<>>)
      offset == Len(output_buf)
      reserved == output_buf \o Zeros(8)
      raw == ByteCodecCompress("LZ4_RAW", t, input_buf, reserved)
      compressed_size == Len(raw.out) - offset - 8
      uncompressed_size == Len(conv.out)
  IN IF conv.ret.kind = "panic" THEN [ret |-> conv.ret, out |-> output_buf]
     ELSE IF raw.ret.kind # "ok" THEN [ret |-> raw.ret, out |-> raw.out]
     ELSE [ret |-> Ok(0),
           out |-> Overwrite(Overwrite(raw.out, offset, U32BE(uncompressed_size)),
                             offset + 4, U32BE(compressed_size))]

\* QcomCodec::compress
QcomCompress(t, input_buf, output_buf) ==
  IF t \in MultiByteTags
  THEN [ret |-> Ok(0), out |-> output_buf \o QcomEncode(t, input_buf)]
  ELSE [ret |-> Panic("Unsupported data type"), out |-> output_buf]

\* A variant in which only the first instance created compresses.
compressOnFirstOnly(c, t, input_buf, output_buf) ==
  IF c.id > 1 THEN [ret |-> Ok(0), out |-> output_buf]
  ELSE CASE c.alg = "LZ4" -> LZ4HadoopCompress(t, input_buf, output_buf)
         [] c.alg = "QCOM" -> QcomCompress(t, input_buf, output_buf)
         [] OTHER -> ByteCodecCompress(c.alg, t, input_buf, output_buf)

compress(c, t, input_buf, output_buf) ==
  CASE c.alg = "LZ4" -> LZ4HadoopCompress(t, input_buf, output_buf)
    [] c.alg = "QCOM" -> QcomCompress(t, input_buf, output_buf)
    [] OTHER -> ByteCodecCompress(c.alg, t, input_buf, output_buf)

(***************************************************************************)
(* decompress of the codecs other than LZ4HadoopCodec: [ret, out], out     *)
(* being the caller's output_buf afterwards.                               *)
(***************************************************************************)
\* The tail every byte-oriented decompress ends with:
\*   self.convert_from_u8(&mut internal_output_buf, ..).expect(..); retsize
ConvertAndReturn(internal_output_buf, t, output_buf, retsize) ==
  LET conv == convert_from_u8(internal_output_buf, t, output_buf)
  IN IF conv.ret.kind = "panic" THEN [ret |-> conv.ret, out |-> output_buf]
     ELSE [ret |-> retsize, out |-> conv.out]

\* SnappyCodec::decompress
SnappyDecompress(input_buf, t, output_buf, uncompress_size) ==
  LET len == IF IsSome(uncompress_size) THEN Ok(Unwrap(uncompress_size))
             ELSE SnappyDecompressLen(input_buf)
  IN IF len.kind = "err" THEN [ret |-> len, out |-> output_buf]
     ELSE
       LET dec == SnappyDecode(input_buf, len.val)
           internal_output_buf == Overwrite(Zeros(len.val), 0, dec.out)
           retsize == IF dec.ok THEN Ok(Len(dec.out)) ELSE Err("snappy: corrupt input")
       IN ConvertAndReturn(internal_output_buf, t, output_buf, retsize)

\* GZipCodec::decompress, BrotliCodec::decompress, ZSTDCodec::decompress
StreamDecompress(alg, input_buf, t, output_buf) ==
  LET dec == StreamDecode(Magic(alg), input_buf)
      retsize == IF dec.ok THEN Ok(Len(dec.out)) ELSE Err("stream: corrupt input")
  IN ConvertAndReturn(dec.out, t, output_buf, retsize)

\* LZ4Codec::decompress (LZ4 frame): a read error returns before the
\* conversion.
LZ4FrameDecompress(input_buf, t, output_buf) ==
  LET dec == StreamDecode(Magic("LZ4_FRAME"), input_buf)
  IN IF ~dec.ok THEN [ret |-> Err("lz4 frame: corrupt input"), out |-> output_buf]
     ELSE ConvertAndReturn(dec.out, t, output_buf, Ok(Len(dec.out)))

\* A variant that takes a missing uncompress_size for Some(0).
LZ4RawDecompressUnsized(input_buf, t, output_buf, uncompress_size) ==
  LET required_len == IF IsSome(uncompress_size) THEN Unwrap(uncompress_size)
                      ELSE 0
      dec == Lz4BlockDecode(input_buf, required_len, required_len)
      internal_output_buf == Overwrite(Zeros(required_len), 0, dec.out)
  IN IF dec.ok /\ Len(dec.out) # required_len
     THEN [ret |-> Err("LZ4RawCodec uncompress_size is not the expected one"),
           out |-> output_buf]
     ELSE ConvertAndReturn(internal_output_buf, t, output_buf,
                           IF dec.ok THEN Ok(Len(dec.out))
                           ELSE Err("lz4 block: decompression failed"))

\* LZ4RawCodec::decompress
LZ4RawDecompress(input_buf, t, output_buf, uncompress_size) ==
  IF ~IsSome(uncompress_size)
  THEN [ret |-> Err("LZ4RawCodec unsupported without uncompress_size"),
        out |-> output_buf]
  ELSE
    LET required_len == Unwrap(uncompress_size)
        dec == Lz4BlockDecode(input_buf, required_len, required_len)
        internal_output_buf == Overwrite(Zeros(required_len), 0, dec.out)
    IN IF dec.ok /\ Len(dec.out) # required_len
       THEN [ret |-> Err("LZ4RawCodec uncompress_size is not the expected one"),
             out |-> output_buf]
       ELSE ConvertAndReturn(internal_output_buf, t, output_buf,
                             IF dec.ok THEN Ok(Len(dec.out))
                             ELSE Err("lz4 block: decompression failed"))

\* QcomCodec::decompress
QcomDecompress(input_buf, t, output_buf) ==
  IF t \notin MultiByteTags
  THEN [ret |-> Panic("Unsupported data type"), out |-> output_buf]
  ELSE
    LET dec == QcomDecode(t, input_buf)
    IN IF ~dec.ok THEN [ret |-> Panic("failed to decompress"), out |-> output_buf]
       ELSE [ret |-> Ok(Len(output_buf \o dec.out)), out |-> output_buf \o dec.out]

decompress(c, input_buf, t, output_buf, uncompress_size) ==
  CASE c.alg = "SNAPPY" -> SnappyDecompress(input_buf, t, output_buf, uncompress_size)
    [] c.alg \in {"GZIP", "BROTLI", "ZSTD"} ->
         StreamDecompress(c.alg, input_buf, t, output_buf)
    [] c.alg = "LZ4_FRAME" -> LZ4FrameDecompress(input_buf, t, output_buf)
    [] c.alg = "LZ4_RAW" -> LZ4RawDecompress(input_buf, t, output_buf, uncompress_size)
    [] c.alg = "QCOM" -> QcomDecompress(input_buf, t, output_buf)

(***************************************************************************)
(* The caller: one column of type tag, one codec at a time, a byte buffer  *)
(* and a value buffer that may start with a prefix the caller put there.   *)
(***************************************************************************)
BytePrefix == <<222, 173>>

NoCall ==
  [op |-> "none", sel |-> "", t |-> "", x |-> <<>>, inp |-> <<>>,
   usize |-> NoneSize, sets |-> <<>>,
   pre_c |-> <<>>, pre_d |-> <<>>, ret |-> NoRet]

HdIdle ==
  [internal_output_buf |-> <<>>, outer_output_len |-> 0, required_len |-> 0,
   input_len |-> 0, ipos |-> 0, read_bytes |-> 0, output_len |-> 0,
   opos |-> 0, iters |-> 0, blocks |-> 0, parse |-> NoRet, retsize |-> NoRet,
   attempts |-> <<>>, results |-> <<>>, snapshots |-> <<>>]

InitWith(c) ==
  /\ tag \in Tags
  /\ codec = c
  /\ \E prefixed \in BOOLEAN :
       /\ compressed = (IF prefixed THEN BytePrefix ELSE <<>>)
       /\ decompressed = (IF prefixed THEN <<ValB(tag)>> ELSE <<>>)
       /\ plen = (IF prefixed THEN Len(BytePrefix) ELSE 0)
  /\ pc = "idle"
  /\ last = NoCall
  /\ ncomp = 0
  /\ ndec = 0
  /\ written = <<>>
  /\ hd = HdIdle

Init == InitWith(NoCodec)

\* The codec whose struct holds objects that its calls use through
\* &mut self (decoder, encoder): two instances of the others are the same
\* value, empty but for LZ4HadoopCodec's flag.
Stateful == {"SNAPPY"}

\* create_codec; the caller keeps the instance when one is returned.  A
\* second instance is created to read LZ4 data with the Hadoop codec, or,
\* for SnappyCodec, to go on with another instance of the same type.
CreateCodec(sel, sets) ==
  /\ pc = "idle"
  /\ ndec = 0
  /\ \/ codec = NoCodec
     \/ codec.alg \in {"LZ4_RAW", "LZ4_FRAME"} /\ sel = "LZ4" /\ ncomp > 0
     \/ codec.alg \in Stateful /\ sel = codec.alg /\ ncomp > 0 /\ codec.id = 1
  /\ LET options == BuildOptions(sets)
         r == create_codec(sel, options)
     IN /\ codec' = (IF r.ret = Ok(1) THEN Instance(r.codec, codec.id + 1)
                      ELSE codec)
        /\ last' = [NoCall EXCEPT !.op = "create_codec", !.sel = sel,
                                  !.usize = IF options.backward_compatible_lz4
                                            THEN <<1>> ELSE <<0>>,
                                  !.sets = sets,
                                  !.ret = r.ret]
  /\ UNCHANGED <<tag, compressed, decompressed, pc, ncomp, ndec, written,
                 plen, hd>>

\* codec.compress(&tag_example, &x, &mut compressed)
Compress(x) ==
  /\ pc = "idle"
  /\ codec # NoCodec
  /\ ncomp < MaxCompress
  /\ ndec = 0
  /\ LET r == compress(codec, tag, x, compressed)
     IN /\ last' = [NoCall EXCEPT !.op = "compress", !.sel = codec.alg,
                                  !.t = tag, !.x = x,
                                  !.pre_c = compressed, !.pre_d = decompressed,
                                  !.ret = r.ret]
        /\ pc' = (IF r.ret.kind = "panic" THEN "aborted" ELSE "idle")
        /\ compressed' = (IF r.ret.kind = "panic" THEN compressed ELSE r.out)
        /\ written' = (IF r.ret.kind = "panic" THEN written
                       ELSE Append(written, [at |-> Len(compressed),
                                             bytes |-> Len(x) * Width(tag),
                                             alg |-> codec.alg, x |-> x,
                                             by |-> codec.id]))
  /\ ncomp' = ncomp + 1
  /\ UNCHANGED <<tag, codec, decompressed, ndec, plen, hd>>

\* A tag that is none of the ten.
OtherTags == {"bool"}

\* codec.allowed(&iodata), asked before the codec is first used; iodata is
\* n elements of tag t, of which only the tag of the first is read.
Allowed(t, n) ==
  /\ pc = "idle"
  /\ codec # NoCodec
  /\ ncomp = 0
  /\ ndec = 0
  /\ last' = [NoCall EXCEPT !.op = "allowed", !.sel = codec.alg, !.t = t,
                            !.x = Zeros(n),
                            !.ret = Ok(IF allowed(codec.alg, t, n) THEN 1 ELSE 0)]
  /\ UNCHANGED <<tag, codec, compressed, decompressed, pc, ncomp, ndec,
                 written, plen, hd>>

\* Where the caller starts reading compressed: after its prefix (the Hadoop
\* reader, which accepts several frames), at the stream written last, or
\* one byte into that stream (a corrupted input).
Mark == IF written = <<>> THEN plen ELSE written[Len(written)].at

Starts ==
  {k \in (IF codec.alg = "LZ4" THEN {plen, Mark, Mark + 1} ELSE {Mark, Mark + 1}) :
     k <= Len(compressed)}

RECURSIVE SumBytes(_)
SumBytes(w) == IF w = <<>> THEN 0 ELSE Head(w).bytes + SumBytes(Tail(w))

\* uncompress_size: None, the marshalled size of the last input, of all
\* inputs, or a wrong size.
LastBytes == IF written = <<>> THEN 0 ELSE written[Len(written)].bytes

USizes ==
  {NoneSize, SomeSize(LastBytes), SomeSize(SumBytes(written)),
   SomeSize(LastBytes + 1)}

\* The tag the caller reads with: the column's, or for a column of bytes
\* the other single-byte tag.
OutTags == IF tag = "u8" THEN {"u8", "i8"} ELSE {tag}

CallRecord(k, t, usize) ==
  [NoCall EXCEPT !.op = "decompress", !.sel = codec.alg, !.t = t,
                 !.inp = Drop(compressed, k), !.usize = usize,
                 !.pre_c = compressed, !.pre_d = decompressed]

\* codec.decompress(&compressed[k..], &t_example, &mut decompressed, usize)
\* for every codec but LZ4HadoopCodec.
Decompress(k, t, usize) ==
  /\ pc = "idle"
  /\ codec # NoCodec
  /\ codec.alg # "LZ4"
  /\ ndec < MaxDecompress
  /\ LET r == decompress(codec, Drop(compressed, k), t, decompressed, usize)
     IN /\ last' = [CallRecord(k, t, usize) EXCEPT !.ret = r.ret]
        /\ pc' = (IF r.ret.kind = "panic" THEN "aborted" ELSE "idle")
        /\ decompressed' = r.out
  /\ ndec' = ndec + 1
  /\ UNCHANGED <<tag, codec, compressed, ncomp, written, plen, hd>>

(***************************************************************************)
(* LZ4HadoopCodec::decompress, step by step.  Positions:                   *)
(*   "frame_loop"     at the head of the while loop of try_decompress_hadoop*)
(*   "parsed"         try_decompress_hadoop has returned hd.parse          *)
(*   "try_lz4_frame"  about to call LZ4Codec::new().decompress             *)
(*   "try_lz4_raw"    about to call LZ4RawCodec::new().decompress          *)
(*   "convert"        about to run the final convert_from_u8               *)
(***************************************************************************)
\* u32::from_be_bytes.  Sizes of 2^31 and more exceed every length of the
\* model and are represented by 2^31 - 1.
U32FromBE(bs) == Magnitude(bs)

\* A variant that takes a missing uncompress_size for an empty output.
RequiredLenOrZero(uncompress_size) ==
  IF IsSome(uncompress_size) THEN Ok(Unwrap(uncompress_size)) ELSE Ok(0)

\* let required_len = match uncompress_size { Some(n) => n, None => return Err }
RequiredLen(uncompress_size) ==
  IF IsSome(uncompress_size) THEN Ok(Unwrap(uncompress_size))
  ELSE Err("LZ4HadoopCodec unsupported without uncompress_size")

\* Entry: the uncompress_size check, the scratch buffer, and the locals of
\* try_decompress_hadoop(input_buf, &mut internal_output_buf[output_len..]).
\* This call is followed step by step and is the only decompress of its run.
HadoopEnter(k, t, usize) ==
  /\ pc = "idle"
  /\ codec.alg = "LZ4"
  /\ ndec = 0
  /\ ndec' = MaxDecompress
  /\ IF RequiredLen(usize).kind = "err" THEN
       /\ last' = [CallRecord(k, t, usize) EXCEPT !.ret = RequiredLen(usize)]
       /\ hd' = HdIdle
       /\ pc' = "idle"
     ELSE
       /\ last' = CallRecord(k, t, usize)
       /\ hd' = [HdIdle EXCEPT
                   !.internal_output_buf = Zeros(RequiredLen(usize).val),
                   !.required_len = RequiredLen(usize).val,
                   !.input_len = Len(compressed) - k,
                   !.output_len = RequiredLen(usize).val,
                   !.attempts = <<"hadoop">>]
       /\ pc' = "frame_loop"
  /\ UNCHANGED <<tag, codec, compressed, decompressed, ncomp, written, plen>>

\* A copy of the frames in which the caller changed one byte.
Patch(bytes, at, delta) == [bytes EXCEPT ![at + 1] = (@ + delta) % 256]

\* The low byte of the first frame's decompressed size (3) and compressed
\* size (7), each raised or lowered by one.
HeaderBytes == {3, 7}

Deltas == {1, 255}

\* The same entry, on frames this codec wrote of which one header byte was
\* changed, with the tag of the column and the size of all that was written.
HadoopEnterCorrupted(at, delta) ==
  /\ pc = "idle"
  /\ codec.alg = "LZ4"
  /\ ndec = 0
  /\ written # <<>>
  /\ written[1].alg = "LZ4"
  /\ ndec' = MaxDecompress
  /\ LET usize == SomeSize(SumBytes(written))
     IN /\ last' = [CallRecord(plen, tag, usize) EXCEPT
                      !.inp = Patch(Drop(compressed, plen), at, delta)]
        /\ hd' = [HdIdle EXCEPT
                    !.internal_output_buf = Zeros(Unwrap(usize)),
                    !.required_len = Unwrap(usize),
                    !.input_len = Len(compressed) - plen,
                    !.output_len = Unwrap(usize),
                    !.attempts = <<"hadoop">>]
  /\ pc' = "frame_loop"
  /\ UNCHANGED <<tag, codec, compressed, decompressed, ncomp, written, plen>>

\* A variant that reports success whatever is left of the input.
LoopExitLenient(input_len, read_bytes) == Ok(read_bytes)

\* The value try_decompress_hadoop returns once the loop is left.
LoopExit(input_len, read_bytes) ==
  IF input_len = 0 THEN Ok(read_bytes) ELSE Err("Not all input are consumed")

\* After a frame: go round the loop again, or break.
MoreFrames(input_len, expected_compressed_size) ==
  input_len > expected_compressed_size

\* A variant that does not compare the advertised output with the space left.
HeaderCheckInputOnly(input_len, output_len, expected_compressed_size, expected_decompressed_size) ==
  IF input_len < expected_compressed_size
  THEN Err("Not enough bytes for Hadoop frame")
  ELSE NoRet

\* The two checks of a frame header against what is left of the input and
\* of the output; NoRet when both pass.
HeaderCheck(input_len, output_len, expected_compressed_size, expected_decompressed_size) ==
  IF input_len < expected_compressed_size
  THEN Err("Not enough bytes for Hadoop frame")
  ELSE IF output_len < expected_decompressed_size
  THEN Err("Not enough bytes to hold advertised output")
  ELSE NoRet

\* A variant that accepts whatever size the block decompressor reports.
SizeCheckNone(decompressed_size, expected_decompressed_size) == NoRet

\* The check of the size the block decompressor reports against the header.
SizeCheck(decompressed_size, expected_decompressed_size) ==
  IF decompressed_size # expected_decompressed_size
  THEN Err("Unexpected decompressed size")
  ELSE NoRet

\* A variant that does not count the header among the bytes read.
NextFrameUncounted(h, expected_compressed_size, expected_decompressed_size) ==
  [h EXCEPT !.input_len = @ - expected_compressed_size,
            !.output_len = @ - expected_decompressed_size,
            !.read_bytes = @ + expected_decompressed_size,
            !.ipos = @ + 8 + expected_compressed_size,
            !.opos = @ + expected_decompressed_size]

\* A variant that goes round the loop without consuming the frame.
NextFrameStuck(h, expected_compressed_size, expected_decompressed_size) ==
  [h EXCEPT !.output_len = @ - expected_decompressed_size,
            !.read_bytes = @ + expected_decompressed_size,
            !.opos = @ + expected_decompressed_size]

\* The locals after a frame that is followed by another: both lengths and
\* read_bytes updated, input and output re-sliced past the frame.
NextFrame(h, expected_compressed_size, expected_decompressed_size) ==
  [h EXCEPT !.input_len = @ - 8 - expected_compressed_size,
            !.output_len = @ - expected_decompressed_size,
            !.read_bytes = @ + expected_decompressed_size,
            !.ipos = @ + 8 + expected_compressed_size,
            !.opos = @ + expected_decompressed_size]

\* One evaluation of the loop condition and, if it holds, of the body.
\* hd.blocks counts the calls of lz4::block::decompress_to_buffer.
FrameIter ==
  /\ pc = "frame_loop"
  /\ IF hd.input_len < 8 THEN
       /\ hd' = [hd EXCEPT !.parse = LoopExit(hd.input_len, hd.read_bytes)]
       /\ pc' = "parsed"
     ELSE
       LET input == Drop(last.inp, hd.ipos)
           expected_decompressed_size == U32FromBE(SubSeq(input, 1, 4))
           expected_compressed_size == U32FromBE(SubSeq(input, 5, 8))
           input_len == hd.input_len - 8
           payload == Drop(input, 8)
           output == Drop(hd.internal_output_buf, hd.opos)
           dec == Lz4BlockDecode(Take(payload, expected_compressed_size),
                                 hd.output_len, Len(output))
           buf == Overwrite(hd.internal_output_buf, hd.opos, dec.out)
           input_len2 == input_len - expected_compressed_size
           check == HeaderCheck(input_len, hd.output_len,
                                expected_compressed_size,
                                expected_decompressed_size)
       IN IF check # NoRet THEN
            /\ hd' = [hd EXCEPT !.iters = @ + 1, !.parse = check]
            /\ pc' = "parsed"
          ELSE IF ~dec.ok THEN
            /\ hd' = [hd EXCEPT !.iters = @ + 1, !.internal_output_buf = buf,
                        !.blocks = @ + 1,
                        !.parse = Err("lz4 block: decompression failed")]
            /\ pc' = "parsed"
          ELSE IF SizeCheck(Len(dec.out), expected_decompressed_size) # NoRet THEN
            /\ hd' = [hd EXCEPT !.iters = @ + 1, !.internal_output_buf = buf,
                        !.blocks = @ + 1,
                        !.parse = SizeCheck(Len(dec.out),
                                            expected_decompressed_size)]
            /\ pc' = "parsed"
          ELSE IF MoreFrames(input_len2, expected_compressed_size) THEN
            /\ hd' = [NextFrame(hd, expected_compressed_size,
                                expected_decompressed_size)
                        EXCEPT !.iters = @ + 1, !.internal_output_buf = buf,
                               !.blocks = @ + 1]
            /\ pc' = "frame_loop"
          ELSE
            /\ hd' = [hd EXCEPT !.iters = @ + 1, !.internal_output_buf = buf,
                        !.blocks = @ + 1,
                        !.input_len = input_len2,
                        !.output_len = @ - expected_decompressed_size,
                        !.read_bytes = @ + expected_decompressed_size,
                        !.ipos = @ + 8,
                        !.parse = LoopExit(input_len2,
                                           hd.read_bytes + expected_decompressed_size)]
            /\ pc' = "parsed"
  /\ UNCHANGED <<tag, codec, compressed, decompressed, last, ncomp, ndec,
                 written, plen>>

\* Vec::truncate
Truncate(v, n) == IF n < Len(v) THEN Take(v, n) ELSE v

\* A variant that falls back whenever the frames did not yield the
\* required length, a short parse included.
ParseArmEager(parse, required_len, backward_compatible_lz4) ==
  IF parse.kind = "ok" /\ parse.val = required_len THEN "ok"
  ELSE IF ~backward_compatible_lz4 THEN "error"
  ELSE "fallback"

\* A variant that takes whatever total a successful parse reports.
ParseArmUnchecked(parse, required_len, backward_compatible_lz4) ==
  IF parse.kind = "ok" THEN "ok"
  ELSE IF ~backward_compatible_lz4 THEN "error"
  ELSE "fallback"

\* The arm of the match on try_decompress_hadoop's result that is taken:
\* "return" (size check failed), "ok", "error" (fallback disabled) or
\* "fallback".
ParseArm(parse, required_len, backward_compatible_lz4) ==
  IF parse.kind = "ok" THEN (IF parse.val # required_len THEN "return" ELSE "ok")
  ELSE IF ~backward_compatible_lz4 THEN "error"
  ELSE "fallback"

\* try_decompress_hadoop as one call: input is the unread slice, the output
\* slice is buf from opos on.  Returns the result and the scratch buffer.
RECURSIVE try_decompress_hadoop(_, _, _, _)
try_decompress_hadoop(input, buf, opos, read_bytes) ==
  IF Len(input) < 8 THEN
    [ret |-> LoopExit(Len(input), read_bytes), buf |-> buf]
  ELSE
    LET expected_decompressed_size == U32FromBE(SubSeq(input, 1, 4))
        expected_compressed_size == U32FromBE(SubSeq(input, 5, 8))
        payload == Drop(input, 8)
        input_len == Len(payload)
        output_len == Len(buf) - opos
        check == HeaderCheck(input_len, output_len, expected_compressed_size,
                             expected_decompressed_size)
        dec == Lz4BlockDecode(Take(payload, expected_compressed_size),
                              output_len, output_len)
        written_buf == Overwrite(buf, opos, dec.out)
        size == SizeCheck(Len(dec.out), expected_decompressed_size)
    IN IF check # NoRet THEN [ret |-> check, buf |-> buf]
       ELSE IF ~dec.ok THEN
         [ret |-> Err("lz4 block: decompression failed"), buf |-> written_buf]
       ELSE IF size # NoRet THEN [ret |-> size, buf |-> written_buf]
       ELSE IF MoreFrames(input_len - expected_compressed_size,
                          expected_compressed_size) THEN
         try_decompress_hadoop(Drop(payload, expected_compressed_size),
                               written_buf,
                               opos + expected_decompressed_size,
                               read_bytes + expected_decompressed_size)
       ELSE
         [ret |-> LoopExit(input_len - expected_compressed_size,
                           read_bytes + expected_decompressed_size),
          buf |-> written_buf]

\* LZ4HadoopCodec::decompress as one call.
LZ4HadoopDecompress(backward_compatible_lz4, input_buf, t, output_buf, uncompress_size) ==
  IF RequiredLen(uncompress_size).kind = "err" THEN
    [ret |-> RequiredLen(uncompress_size), out |-> output_buf]
  ELSE
    LET output_len == 0
        required == RequiredLen(uncompress_size).val
        parse == try_decompress_hadoop(input_buf, Zeros(required), 0, 0)
        arm == ParseArm(parse.ret, required, backward_compatible_lz4)
        truncated == Truncate(output_buf, output_len)
        frame == LZ4FrameDecompress(input_buf, t, truncated)
        again == Truncate(frame.out, output_len)
        raw == LZ4RawDecompress(input_buf, t, again, uncompress_size)
    IN CASE arm = "return" ->
              [ret |-> Err("LZ4HadoopCodec uncompress_size is not the expected one"),
               out |-> output_buf]
         [] arm \in {"ok", "error"} ->
              ConvertAndReturn(parse.buf, t, output_buf, parse.ret)
         [] arm = "fallback" ->
              IF frame.ret.kind = "panic" THEN
                [ret |-> frame.ret, out |-> truncated]
              ELSE IF frame.ret.kind = "ok" THEN
                ConvertAndReturn(parse.buf, t, frame.out, frame.ret)
              ELSE IF raw.ret.kind = "panic" THEN
                [ret |-> raw.ret, out |-> again]
              ELSE ConvertAndReturn(parse.buf, t, raw.out, raw.ret)

\* The match on the result of try_decompress_hadoop.
FrameParsed ==
  /\ pc = "parsed"
  /\ LET arm == ParseArm(hd.parse, hd.required_len, codec.backward_compatible_lz4)
     IN CASE arm = "return" ->
               /\ last' = [last EXCEPT !.ret =
                    Err("LZ4HadoopCodec uncompress_size is not the expected one")]
               /\ hd' = [hd EXCEPT !.results = Append(@, "ok")]
               /\ pc' = "idle"
               /\ UNCHANGED decompressed
          [] arm = "ok" ->
               /\ hd' = [hd EXCEPT !.retsize = hd.parse,
                                    !.results = Append(@, "ok")]
               /\ pc' = "convert"
               /\ UNCHANGED <<last, decompressed>>
          [] arm = "error" ->
               /\ hd' = [hd EXCEPT !.retsize = hd.parse,
                                    !.results = Append(@, "err")]
               /\ pc' = "convert"
               /\ UNCHANGED <<last, decompressed>>
          [] arm = "fallback" ->
               /\ decompressed' = Truncate(decompressed, hd.outer_output_len)
               /\ hd' = [hd EXCEPT
                           !.attempts = Append(@, "lz4_frame"),
                           !.results = Append(@, "err"),
                           !.snapshots = Append(@, decompressed')]
               /\ pc' = "try_lz4_frame"
               /\ UNCHANGED last
  /\ UNCHANGED <<tag, codec, compressed, ncomp, ndec, written, plen>>

\* First fallback: LZ4Codec::new().decompress(input_buf, .., output_buf, ..)
TryLZ4Frame ==
  /\ pc = "try_lz4_frame"
  /\ LET r == LZ4FrameDecompress(last.inp, last.t, decompressed)
     IN CASE r.ret.kind = "panic" ->
               /\ last' = [last EXCEPT !.ret = r.ret]
               /\ hd' = [hd EXCEPT !.results = Append(@, "panic")]
               /\ pc' = "aborted"
               /\ UNCHANGED decompressed
          [] r.ret.kind = "ok" ->
               /\ decompressed' = r.out
               /\ hd' = [hd EXCEPT !.retsize = r.ret,
                                    !.results = Append(@, "ok")]
               /\ pc' = "convert"
               /\ UNCHANGED last
          [] r.ret.kind = "err" ->
               /\ decompressed' = Truncate(r.out, hd.outer_output_len)
               /\ hd' = [hd EXCEPT
                           !.attempts = Append(@, "lz4_raw"),
                           !.results = Append(@, "err"),
                           !.snapshots = Append(@, decompressed')]
               /\ pc' = "try_lz4_raw"
               /\ UNCHANGED last
  /\ UNCHANGED <<tag, codec, compressed, ncomp, ndec, written, plen>>

\* Second fallback: LZ4RawCodec::new().decompress(input_buf, .., output_buf, ..)
TryLZ4Raw ==
  /\ pc = "try_lz4_raw"
  /\ LET r == LZ4RawDecompress(last.inp, last.t, decompressed, last.usize)
     IN IF r.ret.kind = "panic" THEN
          /\ last' = [last EXCEPT !.ret = r.ret]
          /\ hd' = [hd EXCEPT !.results = Append(@, "panic")]
          /\ pc' = "aborted"
          /\ UNCHANGED decompressed
        ELSE
          /\ decompressed' = r.out
          /\ hd' = [hd EXCEPT !.retsize = r.ret,
                               !.results = Append(@, r.ret.kind)]
          /\ pc' = "convert"
          /\ UNCHANGED last
  /\ UNCHANGED <<tag, codec, compressed, ncomp, ndec, written, plen>>

\* self.convert_from_u8(&mut internal_output_buf, ..).expect(..); retsize
HadoopConvert ==
  /\ pc = "convert"
  /\ LET r == ConvertAndReturn(hd.internal_output_buf, last.t, decompressed,
                               hd.retsize)
     IN /\ last' = [last EXCEPT !.ret = r.ret]
        /\ pc' = (IF r.ret.kind = "panic" THEN "aborted" ELSE "idle")
        /\ decompressed' = r.out
  /\ UNCHANGED <<tag, codec, compressed, ncomp, ndec, written, plen, hd>>

Next ==
  \/ \E sel \in Selectors, sets \in SetterCalls : CreateCodec(sel, sets)
  \/ \E t \in Tags \cup OtherTags, n \in 0..1 : Allowed(t, n)
  \/ \E x \in Chunks(tag, SumBytes(written) \div Width(tag)) : Compress(x)
  \/ \E k \in Starts, t \in OutTags, usize \in USizes : Decompress(k, t, usize)
  \/ \E k \in Starts, t \in OutTags, usize \in USizes : HadoopEnter(k, t, usize)
  \/ \E at \in HeaderBytes, delta \in Deltas : HadoopEnterCorrupted(at, delta)
  \/ FrameIter
  \/ FrameParsed
  \/ TryLZ4Frame
  \/ TryLZ4Raw
  \/ HadoopConvert

Spec == Init /\ [][Next]_vars

\* The same program on the columns of single bytes.  A call of
\* LZ4HadoopCodec::decompress runs on the caller's thread: once entered,
\* its next step is taken.
InitFair == Init /\ Width(tag) = 1

SpecFair ==
  /\ InitFair
  /\ [][Next]_vars
  /\ WF_vars(FrameIter)
  /\ WF_vars(FrameParsed)
  /\ WF_vars(TryLZ4Frame)
  /\ WF_vars(TryLZ4Raw)
  /\ WF_vars(HadoopConvert)

(***************************************************************************)
(* The marshaller on its own: the caller holds a codec and calls the       *)
(* trait's convert_to_u8 and convert_from_u8 on its buffers.               *)
(***************************************************************************)
InitMarshal ==
  InitWith(Instance(create_codec("SNAPPY", CodecOptions(TRUE)).codec, 1))

\* codec.convert_to_u8(&tag_example, &x, &mut compressed)
ConvertToU8(x) ==
  /\ pc = "idle"
  /\ ncomp < MaxCompress
  /\ ndec = 0
  /\ LET r == convert_to_u8(tag, x, compressed)
     IN /\ last' = [NoCall EXCEPT !.op = "convert_to_u8", !.t = tag, !.x = x,
                                  !.pre_c = compressed, !.pre_d = decompressed,
                                  !.ret = r.ret]
        /\ pc' = (IF r.ret.kind = "panic" THEN "aborted" ELSE "idle")
        /\ compressed' = r.out
        /\ written' = (IF r.ret.kind = "panic" THEN written
                       ELSE Append(written, [at |-> Len(compressed),
                                             bytes |-> Len(x) * Width(tag),
                                             alg |-> "none", x |-> x]))
  /\ ncomp' = ncomp + 1
  /\ UNCHANGED <<tag, codec, decompressed, ndec, plen, hd>>

\* codec.convert_from_u8(&compressed[k..], &t_example, &mut decompressed)
ConvertFromU8(k, t) ==
  /\ pc = "idle"
  /\ ndec < MaxDecompress
  /\ LET r == convert_from_u8(Drop(compressed, k), t, decompressed)
     IN /\ last' = [NoCall EXCEPT !.op = "convert_from_u8", !.t = t,
                                  !.inp = Drop(compressed, k),
                                  !.pre_c = compressed, !.pre_d = decompressed,
                                  !.ret = r.ret]
        /\ pc' = (IF r.ret.kind = "panic" THEN "aborted" ELSE "idle")
        /\ decompressed' = r.out
  /\ ndec' = ndec + 1
  /\ UNCHANGED <<tag, codec, compressed, ncomp, written, plen, hd>>

NextMarshal ==
  \/ \E x \in InputsWithin(tag, MaxLen - SumBytes(written) \div Width(tag)) :
       ConvertToU8(x)
  \/ \E k \in {0, plen}, t \in OutTags : ConvertFromU8(k, t)

SpecMarshal == InitMarshal /\ [][NextMarshal]_vars

TypeOK ==
  /\ tag \in Tags
  /\ pc \in {"idle", "aborted", "frame_loop", "parsed", "try_lz4_frame",
             "try_lz4_raw", "convert"}
  /\ ncomp \in 0..MaxCompress
  /\ ndec \in 0..MaxDecompress

(***************************************************************************)
(*                              PROPERTIES                                 *)
(***************************************************************************)
Returned == pc \in {"idle", "aborted"} /\ last.ret.kind # "none"

InitialPrefix == Take(BytePrefix, plen)

\* The codec supports the tag (Codec::allowed on a non-empty sequence).
Supports(alg, t) == allowed(alg, t, 1)

\* The codecs whose decompress works without uncompress_size.
CanEstimate(alg) == alg \notin {"LZ4", "LZ4_RAW"}

\* A decompress of exactly what one compress of x wrote into an empty
\* buffer, by a codec of the same algorithm, with the same tag, into an
\* empty output, and with uncompress_size the byte length of x or None.
RoundTripCase ==
  /\ Returned
  /\ last.op = "decompress"
  /\ Len(written) = 1
  /\ plen = 0
  /\ last.inp = compressed
  /\ last.pre_d = <<>>
  /\ last.sel = written[1].alg
  /\ last.t = tag
  /\ \/ last.usize = SomeSize(Len(written[1].x) * Width(tag))
     \/ last.usize = NoneSize /\ CanEstimate(last.sel)

\* C1: for every codec and every tag the codec supports, compressing x into
\* an empty buffer succeeds, and decompressing that buffer into an empty
\* output (uncompress_size the byte length of x, or None where the codec
\* can estimate) succeeds and yields x, element for element.
C1_RoundTrip ==
  /\ (Returned /\ last.op = "compress" /\ Supports(last.sel, tag))
       => last.ret.kind = "ok"
  /\ (RoundTripCase /\ Supports(last.sel, tag))
       => last.ret.kind = "ok" /\ decompressed = written[1].x

\* The same, for the tags other than i8 (whose marshalling aborts).
RoundTripButI8 ==
  /\ (Returned /\ last.op = "compress" /\ Supports(last.sel, tag) /\ tag # "i8")
       => last.ret.kind = "ok"
  /\ (RoundTripCase /\ Supports(last.sel, tag) /\ tag # "i8")
       => last.ret.kind = "ok" /\ decompressed = written[1].x

RoundTripReached ==
  /\ RoundTripCase
  /\ last.ret.kind = "ok"
  /\ Len(decompressed) = 2
  /\ decompressed[1] # decompressed[2]

\* What the compress call recorded in w appends to an empty buffer.
CompressOutput(w) ==
  compress([alg |-> w.alg, backward_compatible_lz4 |-> FALSE], tag, w.x, <<>>).out

\* C2: a successful compress leaves the bytes already in the output buffer
\* where they are and appends its output after them; after any sequence of
\* compress calls the buffer is its initial content followed by each call's
\* output in call order.
C2_CompressAppends ==
  /\ (Returned /\ last.op = "compress" /\ last.ret.kind = "ok")
       => /\ Len(compressed) >= Len(last.pre_c)
          /\ Take(compressed, Len(last.pre_c)) = last.pre_c
          /\ Drop(compressed, Len(last.pre_c))
               = CompressOutput(written[Len(written)])
  /\ (pc = "idle" /\ \A i \in 1..Len(written) : written[i].alg # "none")
       => compressed
            = InitialPrefix
                \o Flatten([i \in 1..Len(written) |-> CompressOutput(written[i])])

C2_Witness ==
  /\ pc = "idle"
  /\ last.op = "compress"
  /\ last.ret.kind = "ok"
  /\ plen > 0
  /\ Len(written) = 2
  /\ last.sel = "LZ4"
  /\ last.x # <<>>
  /\ Take(compressed, plen) = BytePrefix

\* C3: a successful decompress leaves the elements already in the output
\* sequence where they are and appends after them, for every codec and
\* option setting, the fallback chain included.
C3_DecompressAppends ==
  (Returned /\ last.op = "decompress" /\ last.ret.kind = "ok")
    => /\ Len(decompressed) >= Len(last.pre_d)
       /\ Take(decompressed, Len(last.pre_d)) = last.pre_d

\* C4: for each of the ten tags and every sequence v, convert_to_u8 into an
\* empty buffer followed by convert_from_u8 into an empty output yields v.
C4_MarshalInverse ==
  /\ (last.op = "convert_to_u8" /\ last.pre_c = <<>>) => last.ret.kind = "ok"
  /\ (/\ last.op = "convert_from_u8"
      /\ Len(written) = 1
      /\ plen = 0
      /\ last.inp = compressed
      /\ last.pre_d = <<>>
      /\ last.t = tag)
       => last.ret.kind = "ok" /\ decompressed = written[1].x

\* Byte k (0 = least significant) of the two's complement of v.
RefByte(v, k) ==
  IF k < 4 THEN (v \div Pow256(k)) % 256 ELSE IF v < 0 THEN 255 ELSE 0

\* C5: for every tag, convert_to_u8 of n values into an empty buffer gives
\* n * byteWidth(tag) bytes, the big-endian encodings in element order.
C5_BigEndianBytes ==
  (last.op = "convert_to_u8" /\ last.pre_c = <<>>)
    => /\ last.ret = Ok(Len(last.x) * Width(tag))
       /\ Len(compressed) = Len(last.x) * Width(tag)
       /\ \A i \in 1..Len(last.x) : \A j \in 1..Width(tag) :
            compressed[(i - 1) * Width(tag) + j] = RefByte(last.x[i], Width(tag) - j)

\* The same, for the tags other than i8.
BigEndianButI8 ==
  (last.op = "convert_to_u8" /\ last.pre_c = <<>> /\ tag # "i8")
    => /\ last.ret = Ok(Len(last.x) * Width(tag))
       /\ Len(compressed) = Len(last.x) * Width(tag)
       /\ \A i \in 1..Len(last.x) : \A j \in 1..Width(tag) :
            compressed[(i - 1) * Width(tag) + j] = RefByte(last.x[i], Width(tag) - j)

MarshalInverseButI8 ==
  /\ (last.op = "convert_to_u8" /\ last.pre_c = <<>> /\ tag # "i8")
       => last.ret.kind = "ok"
  /\ (/\ last.op = "convert_from_u8"
      /\ Len(written) = 1
      /\ plen = 0
      /\ last.inp = compressed
      /\ last.pre_d = <<>>
      /\ last.t = tag)
       => last.ret.kind = "ok" /\ decompressed = written[1].x

\* The frames of a byte sequence, read by the wire format alone: each
\* header's compressed size is the length of its payload and each payload
\* decompresses to exactly the header's decompressed size.
RECURSIVE FramesOf(_)
FramesOf(b) ==
  IF b = <<>> THEN [ok |-> TRUE, frames |-> <<>>]
  ELSE IF Len(b) < 8 THEN [ok |-> FALSE, frames |-> <<>>]
  ELSE
    LET d == U32FromBE(SubSeq(b, 1, 4))
        c == U32FromBE(SubSeq(b, 5, 8))
    IN IF c > Len(b) - 8 THEN [ok |-> FALSE, frames |-> <<>>]
       ELSE
         LET dec == Lz4BlockDecode(SubSeq(b, 9, 8 + c), d, d)
             rest == FramesOf(Drop(b, 8 + c))
         IN IF dec.ok /\ Len(dec.out) = d /\ rest.ok
            THEN [ok |-> TRUE, frames |-> <<dec.out>> \o rest.frames]
            ELSE [ok |-> FALSE, frames |-> <<>>]

\* C6: for an input that is k >= 1 well-formed frames and an output region
\* as long as the sum of their decompressed sizes, try_decompress_hadoop
\* succeeds, returns that sum and writes the payloads in frame order.
C6_MultiFrame ==
  LET f == FramesOf(last.inp)
  IN (/\ pc = "parsed"
      /\ f.ok
      /\ Len(f.frames) >= 1
      /\ hd.required_len = Len(Flatten(f.frames)))
       => /\ hd.parse = Ok(Len(Flatten(f.frames)))
          /\ hd.internal_output_buf = Flatten(f.frames)

\* The same for a single frame.
SingleFrame ==
  LET f == FramesOf(last.inp)
  IN (/\ pc = "parsed"
      /\ f.ok
      /\ Len(f.frames) = 1
      /\ hd.required_len = Len(Flatten(f.frames)))
       => /\ hd.parse = Ok(Len(Flatten(f.frames)))
          /\ hd.internal_output_buf = Flatten(f.frames)

TwoFramesParsed ==
  /\ pc = "parsed"
  /\ Len(FramesOf(last.inp).frames) = 2
  /\ hd.parse.kind = "ok"
  /\ hd.parse.val = 16

\* C7: with backward_compatible_lz4 enabled, a failed frame parse is
\* followed by an LZ4-Frame attempt, and an LZ4-Raw attempt is made only
\* after the LZ4-Frame attempt has failed; no fallback decoder is attempted
\* when frame parsing succeeds or the option is disabled.
C7_FallbackOrder ==
  /\ hd.attempts \in {<<>>, <<"hadoop">>, <<"hadoop", "lz4_frame">>,
                      <<"hadoop", "lz4_frame", "lz4_raw">>}
  /\ Len(hd.attempts) >= 2
       => hd.parse.kind = "err" /\ codec.backward_compatible_lz4
  /\ (hd.parse.kind = "err" /\ codec.backward_compatible_lz4 /\ pc # "parsed")
       => Len(hd.attempts) >= 2
  /\ Len(hd.attempts) = 3 <=> (Len(hd.results) >= 2 /\ hd.results[2] = "err")

C7_Witness ==
  /\ pc = "idle"
  /\ last.op = "decompress"
  /\ last.ret.kind = "ok"
  /\ hd.attempts = <<"hadoop", "lz4_frame", "lz4_raw">>
  /\ hd.results = <<"err", "err", "ok">>

\* C8: with backward_compatible_lz4 enabled, before each fallback attempt
\* runs the caller's output has exactly the content it had when decompress
\* was called.
C8_FallbackRollback ==
  pc \in {"try_lz4_frame", "try_lz4_raw"} => decompressed = last.pre_d

\* A Hadoop decompress that has returned after its frame parse failed.
FrameParseFailed ==
  /\ Returned
  /\ last.op = "decompress"
  /\ last.sel = "LZ4"
  /\ IsSome(last.usize)
  /\ hd.parse.kind = "err"

\* C9: with backward_compatible_lz4 disabled, when frame parsing fails
\* decompress returns the frame-parse error itself and attempts neither
\* LZ4-Frame nor LZ4-Raw decoding.
C9_FallbackDisabled ==
  (FrameParseFailed /\ ~codec.backward_compatible_lz4)
    => last.ret = hd.parse /\ hd.attempts = <<"hadoop">>

\* The same, unless the final conversion of the scratch buffer aborts.
FallbackDisabledUnlessAbort ==
  (FrameParseFailed /\ ~codec.backward_compatible_lz4 /\ pc # "aborted")
    => last.ret = hd.parse /\ hd.attempts = <<"hadoop">>

\* The input is an LZ4-Raw block that decompresses to exactly n bytes.
RawValid(inp, n) ==
  LET dec == Lz4BlockDecode(inp, n, n) IN dec.ok /\ Len(dec.out) = n

\* C10: for an input that is invalid as Hadoop frames but is a valid LZ4-Raw
\* block whose decompressed length is the supplied uncompress_size,
\* decompress succeeds when backward_compatible_lz4 is true and returns the
\* frame-parse error when it is false.
C10_FallbackBehaviour ==
  (FrameParseFailed /\ RawValid(last.inp, Unwrap(last.usize)))
    => IF codec.backward_compatible_lz4 THEN last.ret.kind = "ok"
       ELSE last.ret = hd.parse

\* The same, for the output tags other than i8.
FallbackBehaviourButI8 ==
  (FrameParseFailed /\ RawValid(last.inp, Unwrap(last.usize)) /\ last.t # "i8")
    => IF codec.backward_compatible_lz4 THEN last.ret.kind = "ok"
       ELSE last.ret = hd.parse

\* The header of the frame the loop is about to read.
HeaderD == U32FromBE(SubSeq(Drop(last.inp, hd.ipos), 1, 4))

HeaderC == U32FromBE(SubSeq(Drop(last.inp, hd.ipos), 5, 8))

AtHeader == pc = "frame_loop" /\ hd.input_len >= 8

\* C11: a header whose compressed size exceeds the input left after the
\* header, or whose decompressed size exceeds the output space left, makes
\* try_decompress_hadoop fail before the LZ4 block decompressor is called
\* for that frame.
C11_HeaderBounds ==
  [][(AtHeader /\ (HeaderC > hd.input_len - 8 \/ HeaderD > hd.output_len))
       => /\ pc' = "parsed"
          /\ hd'.parse.kind = "err"
          /\ hd'.blocks = hd.blocks
          /\ hd'.internal_output_buf = hd.internal_output_buf
          /\ (HeaderC > hd.input_len - 8
                => hd'.parse = Err("Not enough bytes for Hadoop frame"))
          /\ (HeaderC <= hd.input_len - 8
                => hd'.parse = Err("Not enough bytes to hold advertised output"))]_vars

\* The second frame advertises more output than is left, after the first
\* frame was decompressed.
C11_Witness ==
  /\ pc = "parsed"
  /\ hd.parse = Err("Not enough bytes to hold advertised output")
  /\ hd.iters = 2
  /\ hd.blocks = 1

TruncatedFrameReached ==
  /\ pc = "parsed"
  /\ hd.parse = Err("Not enough bytes for Hadoop frame")
  /\ last.t # "i8"
  /\ hd.blocks = 0

\* The number of bytes at the end of b that belong to no complete frame,
\* reading headers from the start.
RECURSIVE Leftover(_)
Leftover(b) ==
  IF Len(b) < 8 THEN Len(b)
  ELSE LET c == U32FromBE(SubSeq(b, 5, 8))
       IN IF c > Len(b) - 8 THEN Len(b) ELSE Leftover(Drop(b, 8 + c))

\* C12: try_decompress_hadoop returns success only if every input byte was
\* consumed as part of a complete frame; with bytes left that are no full
\* frame (1 to 7 trailing bytes in particular) it fails.
C12_ExactExhaustion ==
  pc = "parsed"
    => /\ hd.parse.kind = "ok"
            => /\ hd.input_len = 0
               /\ Leftover(last.inp) = 0
               /\ FramesOf(last.inp).ok
               /\ hd.parse.val = Len(Flatten(FramesOf(last.inp).frames))
       /\ Leftover(last.inp) > 0 => hd.parse.kind = "err"

C12_Witness ==
  /\ pc = "parsed"
  /\ Leftover(last.inp) \in 1..7
  /\ hd.parse = Err("Not all input are consumed")

TrailingAfterFrame ==
  /\ pc = "parsed"
  /\ Leftover(last.inp) \in 1..7
  /\ hd.blocks >= 1

\* What lz4::block::decompress_to_buffer makes of the payload of the frame
\* the loop is about to read.
PayloadDecode ==
  Lz4BlockDecode(Take(Drop(last.inp, hd.ipos + 8), HeaderC), hd.output_len,
                 Len(hd.internal_output_buf) - hd.opos)

\* C13: if the block decompressor reports a size different from the
\* header's decompressed size, try_decompress_hadoop fails and parses no
\* further frame.
C13_SizeMismatch ==
  [][(/\ AtHeader
      /\ HeaderC <= hd.input_len - 8
      /\ HeaderD <= hd.output_len
      /\ PayloadDecode.ok
      /\ Len(PayloadDecode.out) # HeaderD)
       => /\ pc' = "parsed"
          /\ hd'.parse = Err("Unexpected decompressed size")
          /\ hd'.iters = hd.iters + 1
          /\ hd'.blocks = hd.blocks + 1]_vars

\* A mismatch in the first frame, with a second frame left unread.
C13_Witness ==
  /\ pc = "parsed"
  /\ hd.parse = Err("Unexpected decompressed size")
  /\ hd.iters = 1
  /\ hd.input_len - 8 - U32FromBE(SubSeq(last.inp, 5, 8)) >= 8

BlockFailureReached ==
  /\ pc = "parsed"
  /\ hd.parse = Err("lz4 block: decompression failed")

\* A Hadoop compress that has returned Ok.
HadoopCompressed ==
  /\ Returned
  /\ last.op = "compress"
  /\ last.sel = "LZ4"
  /\ last.ret.kind = "ok"

\* C14: compress on LZ4HadoopCodec appends exactly one frame: 8 header
\* bytes, then the whole marshalled input as one LZ4-Raw block; bytes 0..3
\* are the big-endian length of the marshalled input and bytes 4..7 the
\* big-endian count of the bytes that follow the header.
C14_HadoopFraming ==
  HadoopCompressed
    => LET out == Drop(compressed, Len(last.pre_c))
           marshalled == convert_to_u8(last.t, last.x, <<>>).out
           block == Drop(out, 8)
           n == Len(marshalled)
       IN /\ Take(compressed, Len(last.pre_c)) = last.pre_c
          /\ Len(out) >= 8
          /\ U32FromBE(SubSeq(out, 1, 4)) = n
          /\ U32FromBE(SubSeq(out, 5, 8)) = Len(block)
          /\ block = Lz4BlockEncode(marshalled)
          /\ Lz4BlockDecode(block, n, n).ok
          /\ Lz4BlockDecode(block, n, n).out = marshalled
          /\ FramesOf(out) = [ok |-> TRUE, frames |-> <<marshalled>>]

C14_Witness ==
  /\ HadoopCompressed
  /\ Len(last.x) = 2
  /\ Width(last.t) = 4
  /\ plen > 0
  /\ SubSeq(compressed, plen + 1, plen + 8) = <<0, 0, 0, 8, 0, 0, 0, 9>>

\* C15: convert_from_u8 for a multi-byte tag, given a byte count that is
\* no multiple of the tag's width, returns an error to the caller: it
\* neither aborts nor appends the elements of a truncated input.
C15_LengthMismatch ==
  (/\ Returned
   /\ last.op = "convert_from_u8"
   /\ last.t \in MultiByteTags
   /\ Len(last.inp) % Width(last.t) # 0)
    => last.ret.kind = "err" /\ decompressed = last.pre_d

\* What the code does in that case: it aborts, the output as it was.
LengthMismatchAborts ==
  (/\ Returned
   /\ last.op = "convert_from_u8"
   /\ last.t \in MultiByteTags
   /\ Len(last.inp) % Width(last.t) # 0)
    => last.ret.kind = "panic" /\ pc = "aborted" /\ decompressed = last.pre_d

\* The same through decompress: a scratch buffer whose length is no
\* multiple of the width makes the call abort.
DecompressLengthMismatch ==
  (/\ Returned
   /\ last.op = "decompress"
   /\ last.t \in MultiByteTags
   /\ last.sel \in {"LZ4_RAW", "SNAPPY"}
   /\ IsSome(last.usize)
   /\ Unwrap(last.usize) % Width(last.t) # 0)
    => last.ret.kind = "err"

\* The tag is one the codec does not handle: no tag of the ten, or an
\* 8-bit tag on the numeric compressor.
Unhandled(alg, t) == t \notin Tags \/ (alg = "QCOM" /\ t \in {"u8", "i8"})

\* C16: compress and decompress called with a tag the codec does not
\* handle return an error to the caller and do not abort.
C16_UnsupportedType ==
  (/\ Returned
   /\ last.op \in {"compress", "decompress"}
   /\ Unhandled(last.sel, last.t))
    => last.ret.kind = "err" /\ pc # "aborted"

\* What the code does in that case: it aborts, the buffers as they were.
UnsupportedTypeAborts ==
  (/\ Returned
   /\ last.op \in {"compress", "decompress"}
   /\ Unhandled(last.sel, last.t))
    => /\ last.ret = Panic("Unsupported data type")
       /\ compressed = last.pre_c
       /\ decompressed = last.pre_d

\* C17: on a non-empty sequence of tag t, the default allowed returns true
\* for each of the ten tags and false for any other tag; QcomCodec's
\* allowed returns false for u8 and i8 and true for the other eight.
C17_AllowedPolicy ==
  (Returned /\ last.op = "allowed" /\ Len(last.x) > 0)
    => LET ten == {"u8", "u16", "u32", "u64", "i8", "i16", "i32", "i64",
                   "f32", "f64"}
           yes == IF last.sel = "QCOM" THEN ten \ {"u8", "i8"} ELSE ten
       IN last.ret = Ok(IF last.t \in yes THEN 1 ELSE 0)

C17_Witness ==
  /\ Returned
  /\ last.op = "allowed"
  /\ last.sel = "QCOM"
  /\ last.t = "i8"
  /\ Len(last.x) = 1
  /\ last.ret = Ok(0)

OtherTagRefused ==
  /\ Returned
  /\ last.op = "allowed"
  /\ last.sel = "ZSTD"
  /\ last.t \in OtherTags
  /\ Len(last.x) = 1
  /\ last.ret = Ok(0)

\* C18: LZ4RawCodec::decompress with uncompress_size = None returns the
\* error of the missing size, whatever the input is (the backend is not
\* asked), and leaves the caller's output as it was.
C18_MissingExpectedLength ==
  (/\ Returned
   /\ last.op = "decompress"
   /\ last.sel = "LZ4_RAW"
   /\ last.usize = NoneSize)
    => /\ last.ret = Err("LZ4RawCodec unsupported without uncompress_size")
       /\ pc = "idle"
       /\ decompressed = last.pre_d

\* A block that would decompress to one element, and an output that
\* already holds one.
C18_Witness ==
  /\ Returned
  /\ last.op = "decompress"
  /\ last.sel = "LZ4_RAW"
  /\ last.usize = NoneSize
  /\ last.ret.kind = "err"
  /\ last.pre_d # <<>>
  /\ Len(written) = 1
  /\ Len(written[1].x) = 1
  /\ RawValid(last.inp, written[1].bytes)

\* A decompress that has returned Ok.
Decompressed ==
  /\ Returned
  /\ last.op = "decompress"
  /\ last.ret.kind = "ok"

\* The number of elements the call appended to the caller's output.
Appended == Len(decompressed) - Len(last.pre_d)

\* C19: a successful decompress returns the number of elements the call
\* appended to the caller's output sequence.
C19_ReturnsElementCount ==
  Decompressed => last.ret.val = Appended

\* C20: a successful decompress returns the number of uncompressed bytes
\* the call wrote, which is the number of elements it appended times the
\* byte width of the output tag.
C20_ReturnsBytesWritten ==
  Decompressed => last.ret.val = Appended * Width(last.t)

\* What the byte-oriented codecs return: the bytes the backend produced,
\* which are the bytes converted unless uncompress_size was larger.
ByteCodecsReturnBytes ==
  (/\ Decompressed
   /\ last.sel \notin {"QCOM", "LZ4"}
   /\ (IsSome(last.usize) /\ last.sel \in {"SNAPPY", "LZ4_RAW"})
        => Unwrap(last.usize) = last.ret.val)
    => last.ret.val = Appended * Width(last.t)

\* A round trip of one u16 element through Snappy returns 2.
SnappyReturnsTwoForOne ==
  /\ RoundTripCase
  /\ last.sel = "SNAPPY"
  /\ last.t = "u16"
  /\ Len(written[1].x) = 1
  /\ last.ret = Ok(2)
  /\ Appended = 1

\* A round trip of one u16 element through QcomCodec returns 1.
QcomReturnsOneForOne ==
  /\ RoundTripCase
  /\ last.sel = "QCOM"
  /\ last.t = "u16"
  /\ Len(written[1].x) = 1
  /\ last.ret = Ok(1)
  /\ Appended = 1

\* What QcomCodec returns: the length of the whole output sequence.
QcomReturnsOutputLength ==
  (Decompressed /\ last.sel = "QCOM") => last.ret.val = Len(decompressed)

\* What LZ4HadoopCodec returns when the frames parse: the bytes of the frames.
HadoopReturnsBytes ==
  (Decompressed /\ last.sel = "LZ4" /\ hd.parse.kind = "ok")
    => last.ret.val = Appended * Width(last.t)

\* A create_codec that has returned.
Created == Returned /\ last.op = "create_codec"

\* C21: create_codec returns Ok(None) for UNCOMPRESSED, Ok(Some(instance of
\* the matching codec)) for each of the eight supported selectors and an
\* error for every other selector; the LZ4HadoopCodec it builds carries the
\* backward_compatible_lz4 of the options passed in.
C21_FactoryMapping ==
  Created
    => LET supported == {"BROTLI", "GZIP", "SNAPPY", "LZ4", "ZSTD", "LZ4_RAW",
                         "LZ4_FRAME", "QCOM"}
       IN /\ last.sel = "UNCOMPRESSED" => last.ret = Ok(0)
          /\ last.sel \in supported
               => /\ last.ret = Ok(1)
                  /\ codec.alg = last.sel
                  /\ last.sel = "LZ4"
                       => codec.backward_compatible_lz4 = (last.usize = <<1>>)
          /\ last.sel \notin supported \cup {"UNCOMPRESSED"}
               => last.ret.kind = "err"

C21_Witness ==
  /\ Created
  /\ last.sel = "LZ4"
  /\ last.usize = <<0>>
  /\ last.ret = Ok(1)
  /\ codec.alg = "LZ4"
  /\ ~codec.backward_compatible_lz4

UnsupportedSelectorRefused ==
  /\ Created
  /\ last.sel = "LZO"
  /\ last.ret.kind = "err"
  /\ codec = NoCodec

\* C22: the options a builder produces carry the last value passed to
\* set_backward_compatible_lz4, or true when it was never called;
\* CodecOptions::default() equals the options of an untouched builder; and
\* the flag an instance was built with stays with it through every later
\* call on it.
C22_BuilderOptions ==
  /\ [](Created
          => /\ (last.usize = <<1>>)
                  = (IF last.sets = <<>> THEN TRUE
                     ELSE last.sets[Len(last.sets)])
             /\ last.sets = <<>>
                  => CodecOptions(last.usize = <<1>>) = CodecOptionsDefault)
  /\ [][(codec.id # 0 /\ codec'.id = codec.id) => codec' = codec]_vars

C22_Witness ==
  /\ Created
  /\ last.sets = <<TRUE, FALSE>>
  /\ last.sel = "LZ4"
  /\ ~codec.backward_compatible_lz4

DefaultOptionsUsed ==
  /\ Created
  /\ last.sets = <<>>
  /\ last.sel = "LZ4"
  /\ codec.backward_compatible_lz4

OptionsOutliveCalls ==
  /\ Returned
  /\ last.op = "decompress"
  /\ codec.alg = "LZ4"
  /\ ~codec.backward_compatible_lz4

\* C23: for every codec and every tag for which its allowed returns true,
\* the i8 tag under the default policy included, compress and decompress
\* with that tag finish with a returned result and never abort.
C23_AllowedSound ==
  (/\ Returned
   /\ last.op \in {"compress", "decompress"}
   /\ allowed(last.sel, last.t, 1))
    => last.ret.kind \in {"ok", "err"} /\ pc # "aborted"

\* What the code does: compress never aborts on an allowed tag other than
\* i8, and always aborts on i8, which the default allowed accepts.
AllowedSoundForCompressButI8 ==
  (/\ Returned
   /\ last.op = "compress"
   /\ allowed(last.sel, last.t, 1)
   /\ last.t # "i8")
    => last.ret.kind = "ok" /\ pc = "idle"

AllowedI8Aborts ==
  (/\ Returned
   /\ last.op = "compress"
   /\ last.t = "i8")
    => /\ allowed(last.sel, last.t, 1) = (last.sel # "QCOM")
       /\ last.ret = Panic("Unsupported data type")
       /\ pc = "aborted"

AllowedI8Compressed ==
  /\ Returned
  /\ last.op = "compress"
  /\ last.t = "i8"
  /\ last.sel = "SNAPPY"
  /\ Len(last.x) = 1

\* decompress on an allowed tag other than i8 aborts only when the scratch
\* buffer it converts is no whole number of elements.
AllowedSoundForDecompressButI8 ==
  (/\ Returned
   /\ last.op = "decompress"
   /\ allowed(last.sel, last.t, 1)
   /\ last.t # "i8"
   /\ pc = "aborted")
    => /\ last.t \in MultiByteTags
       /\ last.ret.kind = "panic"

\* LZ4HadoopCodec::decompress returned Ok through a fallback decoder.
FallbackSucceeded ==
  /\ Returned
  /\ last.op = "decompress"
  /\ last.sel = "LZ4"
  /\ codec.backward_compatible_lz4
  /\ Len(hd.attempts) > 1
  /\ last.ret.kind = "ok"

\* The elements the fallback decoder that succeeded produces on its own.
FallbackElements ==
  IF hd.attempts[Len(hd.attempts)] = "lz4_frame"
  THEN LZ4FrameDecompress(last.inp, last.t, <<>>).out
  ELSE LZ4RawDecompress(last.inp, last.t, <<>>, last.usize).out

\* The elements of the scratch buffer the frame parse left behind.
ScratchElements == convert_from_u8(hd.internal_output_buf, last.t, <<>>).out

\* C24: when LZ4HadoopCodec::decompress, fallback enabled, returns Ok through
\* a fallback decoder, the elements added to the output are exactly those
\* of the decoder that succeeded and none come from the scratch buffer of
\* the failed frame parse.
C24_CleanFallback ==
  FallbackSucceeded => decompressed = last.pre_d \o FallbackElements

\* What the code does: the output is cut to nothing, the decoder appends,
\* and the scratch buffer of uncompress_size bytes is converted after it.
FallbackAppendsScratch ==
  FallbackSucceeded
    => /\ decompressed = FallbackElements \o ScratchElements
       /\ Len(ScratchElements) * Width(last.t) = Unwrap(last.usize)

\* The scratch elements are there even when the output started empty.
CleanFallbackOnEmptyOutput ==
  (FallbackSucceeded /\ last.pre_d = <<>>) => decompressed = FallbackElements

ScratchAfterFallback ==
  /\ FallbackSucceeded
  /\ last.pre_d = <<>>
  /\ FallbackElements # <<>>
  /\ ScratchElements # <<>>

\* decompress returned an error.
DecompressFailed == Returned /\ last.op = "decompress" /\ last.ret.kind = "err"

\* C25: for every codec, when decompress returns an error, the caller's
\* output is what it was before the call.
C25_NoOutputOnError == DecompressFailed => decompressed = last.pre_d

\* What the code does: the codecs that return with `?` or before the
\* conversion leave the output alone.
NoOutputOnEarlyError ==
  (/\ DecompressFailed
   /\ \/ last.sel \in {"LZ4_FRAME", "QCOM"}
      \/ last.usize = NoneSize /\ last.sel \in {"LZ4_RAW", "LZ4"}
      \/ last.sel = "LZ4" /\ hd.parse.kind = "ok")
    => decompressed = last.pre_d

\* The codecs that keep the backend's error in retsize convert the scratch
\* buffer all the same, and return the error after it.
ScratchOnBackendError ==
  (/\ DecompressFailed
   /\ last.sel \in {"SNAPPY", "GZIP", "BROTLI", "ZSTD"})
    => /\ Take(decompressed, Len(last.pre_d)) = last.pre_d
       /\ (IsSome(last.usize) /\ last.sel = "SNAPPY")
            => Len(decompressed) - Len(last.pre_d)
                 = Unwrap(last.usize) \div Width(last.t)

OutputGrownOnError ==
  /\ DecompressFailed
  /\ last.sel = "SNAPPY"
  /\ Len(decompressed) > Len(last.pre_d)

HadoopOutputChangedOnError ==
  /\ DecompressFailed
  /\ last.sel = "LZ4"
  /\ ~codec.backward_compatible_lz4
  /\ decompressed # last.pre_d

\* An instance as create_codec hands it out for the algorithm and the
\* option of the instance the call was made on, never used before.
FreshInstance ==
  Instance(create_codec(last.sel,
                        BuildOptions(<<codec.backward_compatible_lz4>>)).codec,
           1)

\* The call on a fresh instance, with the arguments of the call just made.
FreshCompress == compress(FreshInstance, last.t, last.x, <<>>)

FreshDecompress ==
  IF last.sel = "LZ4"
  THEN LZ4HadoopDecompress(FreshInstance.backward_compatible_lz4, last.inp,
                           last.t, last.pre_d, last.usize)
  ELSE decompress(FreshInstance, last.inp, last.t, last.pre_d, last.usize)

InstancesInterleaved ==
  /\ Returned
  /\ last.op = "decompress"
  /\ codec.id = 2
  /\ Len(written) = 2
  /\ written[1].by = 1
  /\ written[2].by = 2
  /\ last.ret.kind = "ok"

SecondInstanceFallsBack ==
  /\ Returned
  /\ last.op = "decompress"
  /\ codec.id = 2
  /\ last.sel = "LZ4"
  /\ Len(hd.attempts) > 1

\* The frames parsed, to a total other than uncompress_size.
ParsedToOtherSize ==
  /\ Returned
  /\ last.op = "decompress"
  /\ last.sel = "LZ4"
  /\ IsSome(last.usize)
  /\ hd.parse.kind = "ok"
  /\ hd.parse.val # Unwrap(last.usize)

\* C27: when the frame parse succeeds with a total other than
\* uncompress_size, LZ4HadoopCodec::decompress returns an error without
\* trying LZ4-Frame or LZ4-Raw, fallback enabled or not, and appends nothing.
C27_SizeCheckNoFallback ==
  ParsedToOtherSize
    => /\ last.ret = Err("LZ4HadoopCodec uncompress_size is not the expected one")
       /\ hd.attempts = <<"hadoop">>
       /\ decompressed = last.pre_d

C27_Witness ==
  /\ ParsedToOtherSize
  /\ codec.backward_compatible_lz4
  /\ hd.blocks > 0
  /\ last.pre_d # <<>>

\* LZ4HadoopCodec::decompress was called without uncompress_size.
CalledWithoutSize ==
  /\ last.op = "decompress"
  /\ last.sel = "LZ4"
  /\ last.usize = NoneSize

\* C28: LZ4HadoopCodec::decompress with uncompress_size None returns an
\* error before any decoding attempt, whatever backward_compatible_lz4 is,
\* and leaves the output as it was.
C28_NeedsSize ==
  CalledWithoutSize
    => /\ Returned
       /\ last.ret = Err("LZ4HadoopCodec unsupported without uncompress_size")
       /\ hd.attempts = <<>>
       /\ hd.iters = 0 /\ hd.blocks = 0
       /\ decompressed = last.pre_d

C28_Witness ==
  /\ CalledWithoutSize
  /\ Returned
  /\ codec.backward_compatible_lz4
  /\ last.inp # <<>>
  /\ last.pre_d # <<>>

NeedsSizeWithoutFallback ==
  /\ CalledWithoutSize
  /\ Returned
  /\ ~codec.backward_compatible_lz4
  /\ last.inp # <<>>

\* The slices try_decompress_hadoop holds at the top of the loop.
InputSlice == Drop(last.inp, hd.ipos)

OutputSlice == Drop(hd.internal_output_buf, hd.opos)

\* C29: at the start of every iteration of the loop of
\* try_decompress_hadoop, input_len is the length of the unread input
\* slice, output_len the length of the unwritten output slice, read_bytes
\* plus output_len the length of the output region, and no slice taken in
\* the iteration reaches past the end of the input or of the output.
C29_CursorInvariants ==
  pc = "frame_loop"
    => /\ hd.ipos \in 0..Len(last.inp)
       /\ hd.opos \in 0..Len(hd.internal_output_buf)
       /\ hd.input_len = Len(InputSlice)
       /\ hd.output_len = Len(OutputSlice)
       /\ hd.read_bytes + hd.output_len = Len(hd.internal_output_buf)
       /\ (hd.input_len >= 8
             /\ HeaderCheck(hd.input_len - 8, hd.output_len, HeaderC, HeaderD)
                  = NoRet)
            => /\ 8 + HeaderC <= Len(InputSlice)
               /\ HeaderD <= Len(OutputSlice)

\* The top of the loop for the second frame.
C29_Witness ==
  /\ pc = "frame_loop"
  /\ hd.iters = 1
  /\ hd.ipos > 8
  /\ hd.opos > 0
  /\ hd.input_len >= 8
  /\ HeaderCheck(hd.input_len - 8, hd.output_len, HeaderC, HeaderD) = NoRet

\* LZ4HadoopCodec::decompress has been entered and has not returned.
InHadoopCall ==
  pc \in {"frame_loop", "parsed", "try_lz4_frame", "try_lz4_raw", "convert"}

\* C30: every iteration of the loop of try_decompress_hadoop that does not
\* leave the loop takes at least the 8 header bytes off the remaining
\* input, so the iterations are bounded by the input's length, and a call
\* of LZ4HadoopCodec::decompress, both fallbacks included, eventually
\* returns.
C30_Termination ==
  /\ [][(pc = "frame_loop" /\ pc' = "frame_loop")
          => /\ hd'.input_len + 8 <= hd.input_len
             /\ hd'.input_len >= 0]_vars
  /\ [](InHadoopCall => 8 * hd.iters <= Len(last.inp))
  /\ (InHadoopCall ~> Returned)

\* The call returned after a second round of the loop and both fallbacks.
C30_Witness ==
  /\ Returned
  /\ last.op = "decompress"
  /\ last.sel = "LZ4"
  /\ hd.iters = 2
  /\ hd.attempts = <<"hadoop", "lz4_frame", "lz4_raw">>

\* The safety half of it, on the columns of every width.
LoopConsumesHeader ==
  /\ [][(pc = "frame_loop" /\ pc' = "frame_loop")
          => hd'.input_len + 8 <= hd.input_len]_vars
  /\ [](InHadoopCall => 8 * hd.iters <= Len(last.inp))

====
